---- MODULE Spec2Model ----
(***************************************************************************)
(* A model of the SVD Visualizer's matrix core (utils/matrix: getAngle,    *)
(* fromAngle, computeSVD, reconstructMatrix, applyTransform).              *)
(*                                                                         *)
(* The code computes on JavaScript numbers, i.e. IEEE-754 binary64 values  *)
(* with round-to-nearest-even.  The model keeps that arithmetic bit for    *)
(* bit: a number is a record [k, sg, m, e] (kind, sign, 53-bit significand *)
(* and exponent) and +, -, *, /, Math.sqrt are computed exactly and then   *)
(* rounded once, as IEEE-754 requires.  Significands do not fit the        *)
(* integers of TLC, so they are little-endian sequences of 15-bit limbs.   *)
(***************************************************************************)
EXTENDS Integers, Sequences, FiniteSets, TLC

(***************************************************************************)
(* Natural numbers of any size: <<l1, ..., ln>> is l1 + l2*Base + ...,     *)
(* with ln # 0; <<>> is zero.                                              *)
(***************************************************************************)
Base == 2^15

RECURSIVE BTrim(_)
BTrim(a) ==
  IF a = <<>> THEN a
  ELSE IF a[Len(a)] = 0 THEN BTrim(SubSeq(a, 1, Len(a) - 1)) ELSE a

RECURSIVE BAddC(_, _, _)
BAddC(a, b, c) ==
  IF b = <<>> /\ c = 0 THEN a
  ELSE IF a = <<>> /\ c = 0 THEN b
  ELSE LET x == IF a = <<>> THEN 0 ELSE Head(a)
           y == IF b = <<>> THEN 0 ELSE Head(b)
           t == x + y + c
       IN  <<t % Base>> \o BAddC(IF a = <<>> THEN a ELSE Tail(a),
                                 IF b = <<>> THEN b ELSE Tail(b), t \div Base)

RECURSIVE BSubC(_, _, _)
BSubC(a, b, c) ==
  IF b = <<>> /\ c = 0 THEN a
  ELSE LET y == IF b = <<>> THEN 0 ELSE Head(b)
           t == Head(a) - y - c
       IN  <<t % Base>> \o BSubC(Tail(a), IF b = <<>> THEN b ELSE Tail(b),
                                 IF t < 0 THEN 1 ELSE 0)

RECURSIVE BCmpAt(_, _, _)
BCmpAt(a, b, i) ==
  IF i = 0 THEN 0
  ELSE IF a[i] > b[i] THEN 1
  ELSE IF a[i] < b[i] THEN -1
  ELSE BCmpAt(a, b, i - 1)

\* -1, 0 or 1 as a < b, a = b or a > b
BCmp(a, b) ==
  IF Len(a) > Len(b) THEN 1
  ELSE IF Len(a) < Len(b) THEN -1
  ELSE BCmpAt(a, b, Len(a))

RECURSIVE BMulC(_, _, _)
BMulC(a, d, c) ==
  IF a = <<>> THEN (IF c = 0 THEN <<>> ELSE <<c>>)
  ELSE LET t == Head(a) * d + c
       IN  <<t % Base>> \o BMulC(Tail(a), d, t \div Base)

RECURSIVE BMul(_, _)
BMul(a, b) ==
  IF a = <<>> \/ b = <<>> THEN <<>>
  ELSE IF Len(b) = 1 THEN BMulC(a, b[1], 0)
  ELSE BAddC(BMulC(a, Head(b), 0), <<0>> \o BMul(a, Tail(b)), 0)

\* a * 2^k
BShl(a, k) ==
  IF a = <<>> THEN a
  ELSE [i \in 1..(k \div 15) |-> 0] \o BMulC(a, 2^(k % 15), 0)

\* floor(a / 2^k)
BShr(a, k) ==
  IF k \div 15 >= Len(a) THEN <<>>
  ELSE BTrim([i \in 1..(Len(a) - (k \div 15)) |->
                (a[i + (k \div 15)] \div 2^(k % 15))
                + (IF i + (k \div 15) < Len(a)
                   THEN (a[i + (k \div 15) + 1] % 2^(k % 15)) * 2^(15 - (k % 15))
                   ELSE 0)])

\* the number of bits of a (0 for zero)
BBits(a) ==
  IF a = <<>> THEN 0
  ELSE 15 * (Len(a) - 1) + (CHOOSE n \in 1..15 : 2^(n-1) <= a[Len(a)] /\ a[Len(a)] < 2^n)

\* bit i of a (bit 0 is the lowest)
BBit(a, i) ==
  IF i \div 15 >= Len(a) THEN 0 ELSE (a[(i \div 15) + 1] \div 2^(i % 15)) % 2

\* a mod 2^k # 0
BLowBits(a, k) ==
  \E i \in 1..Len(a) :
     \/ i <= k \div 15 /\ a[i] # 0
     \/ i = (k \div 15) + 1 /\ a[i] % 2^(k % 15) # 0

\* floor(r / d) for r < d * Base and d with a top limb of at least Base / 2:
\* q estimates it from the top limbs, two too high at most
RECURSIVE BFit(_, _, _)
BFit(r, d, q) ==
  IF q >= Base \/ BCmp(BTrim(BMulC(d, q, 0)), r) > 0 THEN BFit(r, d, q - 1) ELSE q

\* a step of the long division: the digit q goes on top of the quotient qs and
\* leaves the remainder r - q * d
BDivPut(qs, r, d, q) == << <<q>> \o qs, BTrim(BSubC(r, BTrim(BMulC(d, q, 0)), 0)) >>

BDivStep(qs, r, d) ==
  BDivPut(qs, r, d,
          IF Len(r) < Len(d) THEN 0
          ELSE BFit(r, d, ((IF Len(r) > Len(d) THEN r[Len(d) + 1] * Base ELSE 0) + r[Len(d)])
                            \div d[Len(d)]))

\* long division, a limb of n a step: qr = <<quotient, remainder>> of the limbs
\* of n above limb i; in the end <<quotient, whether a remainder is left>>
RECURSIVE BDivLimb(_, _, _, _)
BDivLimb(qr, n, d, i) ==
  IF i = 0 THEN <<BTrim(qr[1]), qr[2] # <<>> >>
  ELSE BDivLimb(BDivStep(qr[1], BTrim(<<n[i]>> \o qr[2]), d), n, d, i - 1)

\* <<floor(n / d), whether a remainder is left>>, for d # 0: n and d are shifted
\* for the top limb of d to be full
BDiv(n, d) ==
  BDivLimb(<< <<>>, <<>> >>, BShl(n, 15 * Len(d) - BBits(d)), BShl(d, 15 * Len(d) - BBits(d)),
           Len(BShl(n, 15 * Len(d) - BBits(d))))

\* floor(sqrt(n)) by Newton's iteration from x >= sqrt(n)
RECURSIVE BSqrtFrom(_, _)
BSqrtNext(n, x, y) == IF BCmp(y, x) < 0 THEN BSqrtFrom(n, y) ELSE x

BSqrtFrom(n, x) == BSqrtNext(n, x, BShr(BAddC(x, BDiv(n, x)[1], 0), 1))

\* floor(sqrt(n)), for n # 0
BSqrt(n) == BSqrtFrom(n, BShl(<<1>>, (BBits(n) + 1) \div 2))

(***************************************************************************)
(* IEEE-754 binary64.  A finite non-zero number is (-1)^sg * m * 2^e with  *)
(* m of exactly MantBits bits and e >= MinExp (normal), or m of fewer bits *)
(* and e = MinExp (subnormal).                                             *)
(***************************************************************************)
MantBits == 53
MinExp == -1074
MaxExp == 971

NaN == [k |-> "nan", sg |-> 0, m |-> <<>>, e |-> 0]
Inf(sg) == [k |-> "inf", sg |-> sg, m |-> <<>>, e |-> 0]
Zero(sg) == [k |-> "fin", sg |-> sg, m |-> <<>>, e |-> 0]

IsNaN(x) == x.k = "nan"
IsInf(x) == x.k = "inf"
IsZero(x) == x.k = "fin" /\ x.m = <<>>
IsFinite(x) == x.k = "fin"

\* the number (-1)^sg * m * 2^e, m of at most MantBits bits
Pack(sg, m, e) ==
  IF m = <<>> THEN Zero(sg)
  ELSE IF e > MaxExp THEN Inf(sg)
  ELSE [k |-> "fin", sg |-> sg, m |-> m, e |-> e]

\* rounding up may carry into one bit more
Carry(sg, q, e) ==
  IF BBits(q) > MantBits THEN Pack(sg, BShr(q, 1), e + 1) ELSE Pack(sg, q, e)

\* M with its low sh bits rounded away, up when they (and t) are above a half
\* or a half and the bit kept last is set, or with -sh zero bits appended
RoundAt(sg, M, E, sticky, sh) ==
  IF sh <= 0 THEN Pack(sg, BShl(M, 0 - sh), E + sh)
  ELSE Carry(sg,
             BAddC(BShr(M, sh), <<>>,
                   IF BBit(M, sh - 1) = 1
                      /\ (sticky \/ BLowBits(M, sh - 1) \/ BBit(M, sh) = 1)
                   THEN 1 ELSE 0),
             E + sh)

\* The binary64 nearest to (-1)^sg * (M + t) * 2^E, ties to even, where t is 0
\* or, when sticky, some fraction in (0,1).
Round(sg, M, E, sticky) ==
  IF M = <<>> THEN Zero(sg)
  ELSE RoundAt(sg, M, E, sticky,
               IF BBits(M) - MantBits >= MinExp - E THEN BBits(M) - MantBits ELSE MinExp - E)

Neg(x) == IF IsNaN(x) THEN x ELSE [x EXCEPT !.sg = 1 - x.sg]
Abs(x) == IF IsNaN(x) THEN x ELSE [x EXCEPT !.sg = 0]

\* x compared with y for x, y not NaN: negative, zero or positive (-0 equals +0)
Cmp(x, y) ==
  IF IsInf(x) \/ IsInf(y)
  THEN (IF IsInf(x) THEN 1 - 2 * x.sg ELSE 0) - (IF IsInf(y) THEN 1 - 2 * y.sg ELSE 0)
  ELSE IF IsZero(x) /\ IsZero(y) THEN 0
  ELSE IF IsZero(x) THEN 2 * y.sg - 1
  ELSE IF IsZero(y) THEN 1 - 2 * x.sg
  ELSE IF x.sg # y.sg THEN y.sg - x.sg
  ELSE IF x.e # y.e THEN (1 - 2 * x.sg) * (x.e - y.e)
  ELSE (1 - 2 * x.sg) * BCmp(x.m, y.m)

\* the comparison operators of the language: all false on NaN
Lt(x, y) == ~IsNaN(x) /\ ~IsNaN(y) /\ Cmp(x, y) < 0
Le(x, y) == ~IsNaN(x) /\ ~IsNaN(y) /\ Cmp(x, y) <= 0
Gt(x, y) == ~IsNaN(x) /\ ~IsNaN(y) /\ Cmp(x, y) > 0
Ge(x, y) == ~IsNaN(x) /\ ~IsNaN(y) /\ Cmp(x, y) >= 0
Eq(x, y) == ~IsNaN(x) /\ ~IsNaN(y) /\ Cmp(x, y) = 0

\* x * y
Mul(x, y) ==
  IF IsNaN(x) \/ IsNaN(y) THEN NaN
  ELSE IF IsInf(x) \/ IsInf(y)
  THEN (IF IsZero(x) \/ IsZero(y) THEN NaN ELSE Inf((x.sg + y.sg) % 2))
  ELSE Round((x.sg + y.sg) % 2, BMul(x.m, y.m), x.e + y.e, FALSE)

\* mx * 2^e of sign sx plus my * 2^e of sign sy
AddAligned(sx, sy, mx, my, e) ==
  IF sx # sy /\ BCmp(mx, my) = 0 THEN Zero(0)
  ELSE Round(IF sx = sy \/ BCmp(mx, my) > 0 THEN sx ELSE sy,
             IF sx = sy THEN BAddC(mx, my, 0)
             ELSE BTrim(BSubC(IF BCmp(mx, my) > 0 THEN mx ELSE my,
                              IF BCmp(mx, my) > 0 THEN my ELSE mx, 0)),
             e, FALSE)

\* x + y for finite non-zero x, y with x.e >= y.e: x is shifted up to meet y; a
\* y below an eighth of the last place of x only decides the rounding, and
\* counts as one unit three places down
AddFin(x, y) ==
  AddAligned(x.sg, y.sg,
             BShl(x.m, IF x.e - y.e > MantBits + 2 THEN 3 ELSE x.e - y.e),
             IF x.e - y.e > MantBits + 2 THEN <<1>> ELSE y.m,
             IF x.e - y.e > MantBits + 2 THEN x.e - 3 ELSE y.e)

\* x + y
Add(x, y) ==
  IF IsNaN(x) \/ IsNaN(y) THEN NaN
  ELSE IF IsInf(x) THEN (IF IsInf(y) /\ x.sg # y.sg THEN NaN ELSE x)
  ELSE IF IsInf(y) THEN y
  ELSE IF IsZero(x) THEN (IF IsZero(y) THEN Zero(x.sg * y.sg) ELSE y)
  ELSE IF IsZero(y) THEN x
  ELSE AddFin(IF x.e >= y.e THEN x ELSE y, IF x.e >= y.e THEN y ELSE x)

\* x - y
Sub(x, y) == Add(x, Neg(y))

\* the quotient qr = <<q, whether a remainder is left>>, rounded
DivRound(sg, qr, e) == Round(sg, qr[1], e, qr[2])

\* x / y: the significand of x is shifted up for the quotient to have three bits
\* more than a significand
Div(x, y) ==
  IF IsNaN(x) \/ IsNaN(y) THEN NaN
  ELSE IF IsInf(x) THEN (IF IsInf(y) THEN NaN ELSE Inf((x.sg + y.sg) % 2))
  ELSE IF IsInf(y) THEN Zero((x.sg + y.sg) % 2)
  ELSE IF IsZero(y) THEN (IF IsZero(x) THEN NaN ELSE Inf((x.sg + y.sg) % 2))
  ELSE IF IsZero(x) THEN Zero((x.sg + y.sg) % 2)
  ELSE DivRound((x.sg + y.sg) % 2,
                BDiv(BShl(x.m, MantBits + 3 + BBits(y.m) - BBits(x.m)), y.m),
                x.e - y.e - (MantBits + 3 + BBits(y.m) - BBits(x.m)))

\* the bits the significand of x is shifted up by for its square root to have
\* two bits more than a significand, the exponent left being even
Widen(x) ==
  2 * MantBits + 2 - BBits(x.m) + (IF (x.e + BBits(x.m) - MantBits) % 2 = 0 THEN 1 ELSE 0)

\* the root r = floor(sqrt(n)), rounded
SqrtRound(n, r, e) == Round(0, r, e, BMul(r, r) # n)

\* Math.sqrt(x)
Sqrt(x) ==
  IF IsNaN(x) THEN NaN
  ELSE IF IsZero(x) THEN x
  ELSE IF x.sg = 1 THEN NaN
  ELSE IF IsInf(x) THEN x
  ELSE SqrtRound(BShl(x.m, Widen(x)), BSqrt(BShl(x.m, Widen(x))), (x.e - Widen(x)) \div 2)

\* the number n for an integer n with |n| < Base^2, and n / 10^p (a decimal
\* literal of the source, exact division by a power of ten that is itself exact)
Num(n) ==
  Round(IF n < 0 THEN 1 ELSE 0,
        BTrim(<<(IF n < 0 THEN -n ELSE n) % Base, (IF n < 0 THEN -n ELSE n) \div Base>>),
        0, FALSE)

RECURSIVE Pow10(_)
Pow10(p) == IF p = 0 THEN Num(1) ELSE Mul(Pow10(p - 1), Num(10))

Dec(n, p) == Div(Num(n), Pow10(p))

(***************************************************************************)
(* Math.cos, Math.sin and Math.atan2.  The language leaves their last bits *)
(* to the engine; they are computed here as V8 computes them, which is the *)
(* fdlibm algorithm in binary64: its constants, its argument reduction by  *)
(* pi/2 carried in pieces, its polynomial kernels.  A test fdlibm makes on *)
(* the high word of a number is made on highWord.  A value fdlibm keeps in *)
(* a local variable is the parameter of an operator here.                  *)
(***************************************************************************)
PI == [k |-> "fin", sg |-> 0, m |-> <<11544, 10376, 2029, 201>>, e |-> -51]     \* Math.PI
pi_lo == [k |-> "fin", sg |-> 0, m |-> <<23559, 26152, 6296, 141>>, e |-> -105]  \* 1.2246467991473532e-16
tiny == [k |-> "fin", sg |-> 0, m |-> <<29529, 1521, 14463, 171>>, e |-> -1049]  \* 1e-300
Half == [k |-> "fin", sg |-> 0, m |-> <<0, 0, 0, 128>>, e |-> -53]               \* 0.5
PIo2 == [k |-> "fin", sg |-> 0, m |-> <<11544, 10376, 2029, 201>>, e |-> -52]    \* pi / 2

\* the integer a bignum of at most two limbs stands for
BInt(a) == IF a = <<>> THEN 0 ELSE IF Len(a) = 1 THEN a[1] ELSE a[1] + Base * a[2]

\* the high 32 bits of |x|: 11 bits of biased exponent, the top 20 of the fraction
highWord(x) ==
  IF IsNaN(x) THEN 2146959360
  ELSE IF IsInf(x) THEN 2146435072
  ELSE IF IsZero(x) THEN 0
  ELSE IF BBits(x.m) = MantBits
       THEN (x.e + 1075) * 2^20 + (BInt(BShr(x.m, 32)) - 2^20)
       ELSE BInt(BShr(x.m, 32))

\* the number whose high word is h and low word 0 (h of a normal number)
fromHighWord(h) ==
  [k |-> "fin", sg |-> 0,
   m |-> BShl(<<(2^20 + (h % 2^20)) % Base, (2^20 + (h % 2^20)) \div Base>>, 32),
   e |-> (h \div 2^20) - 1075]

\* (int) x, for 0 <= x < 2^30
trunc(x) ==
  IF IsZero(x) THEN 0
  ELSE IF x.e >= 0 THEN BInt(BShl(x.m, x.e)) ELSE BInt(BShr(x.m, -x.e))

\* c + z * r, rounded after the product and after the sum
step(c, z, r) == Add(c, Mul(z, r))

\* coef[i] + z * (coef[i + d] + z * (coef[i + 2d] + ...)), to the end of coef
RECURSIVE horner(_, _, _, _)
horner(coef, i, d, z) ==
  IF i + d > Len(coef) THEN coef[i] ELSE step(coef[i], z, horner(coef, i + d, d, z))

\* x if sg is 0, -x if it is 1
signed(sg, x) == IF sg = 1 THEN Neg(x) ELSE x

SinCoef == <<[k |-> "fin", sg |-> 1, m |-> <<21833, 10922, 21845, 170>>, e |-> -55],
             [k |-> "fin", sg |-> 0, m |-> <<30886, 8737, 17476, 136>>, e |-> -59],
             [k |-> "fin", sg |-> 1, m |-> <<25045, 13186, 1664, 208>>, e |-> -65],
             [k |-> "fin", sg |-> 0, m |-> <<32381, 12131, 30605, 184>>, e |-> -71],
             [k |-> "fin", sg |-> 1, m |-> <<7403, 5207, 6042, 215>>, e |-> -78],
             [k |-> "fin", sg |-> 0, m |-> <<21884, 13727, 25833, 174>>, e |-> -85]>>

CosCoef == <<[k |-> "fin", sg |-> 0, m |-> <<21836, 10922, 21845, 170>>, e |-> -57],
             [k |-> "fin", sg |-> 1, m |-> <<20855, 11650, 1456, 182>>, e |-> -62],
             [k |-> "fin", sg |-> 0, m |-> <<5520, 13206, 1664, 208>>, e |-> -68],
             [k |-> "fin", sg |-> 1, m |-> <<21165, 312, 31038, 147>>, e |-> -74],
             [k |-> "fin", sg |-> 0, m |-> <<12740, 31593, 14970, 143>>, e |-> -81],
             [k |-> "fin", sg |-> 1, m |-> <<14548, 32016, 27558, 199>>, e |-> -89]>>

\* with z = x * x, v = z * x and r = S2 + z * (S3 + ... + z * S6)
sinSum(x, y, iy, z, v, r) ==
  IF iy = 0 THEN Add(x, Mul(v, step(SinCoef[1], z, r)))
  ELSE Sub(x, Sub(Sub(Mul(z, Sub(Mul(Half, y), Mul(v, r))), y), Mul(v, SinCoef[1])))

\* sin(x + y) for |x| <= pi/4 and y the tail of x (iy = 0 says y is 0)
kernel_sin(x, y, iy) ==
  IF highWord(x) < 1044381696 THEN x
  ELSE sinSum(x, y, iy, Mul(x, x), Mul(Mul(x, x), x), horner(SinCoef, 2, 1, Mul(x, x)))

\* with z = x * x and zr = z * r - x * y, r = z * (C1 + z * (C2 + ... + z * C6)):
\* 1 - (0.5 * z - zr), with qx = 0.28125 or about |x| / 4 taken off both terms
\* first when |x| >= 0.3
cosSum(ix, z, zr, qx) ==
  IF ix < 1070805811 THEN Sub(Num(1), Sub(Mul(Half, z), zr))
  ELSE Sub(Sub(Num(1), qx), Sub(Sub(Mul(Half, z), qx), zr))

cosSeries(x, y, z) ==
  cosSum(highWord(x), z, Sub(Mul(z, Mul(z, horner(CosCoef, 1, 1, z))), Mul(x, y)),
         IF highWord(x) > 1072234496 THEN Div(Num(9), Num(32))
         ELSE fromHighWord(highWord(x) - 2097152))

\* cos(x + y) for |x| <= pi/4 and y the tail of x
kernel_cos(x, y) ==
  IF highWord(x) < 1044381696 THEN Num(1) ELSE cosSeries(x, y, Mul(x, x))

invpio2 == [k |-> "fin", sg |-> 0, m |-> <<18563, 23443, 31937, 162>>, e |-> -53]  \* 0.6366197723675814

\* pi/2 in pieces, fdlibm's pio2_1, pio2_1t, pio2_2, pio2_2t, pio2_3, pio2_3t:
\* pio2_1 its first 33 bits, pio2_1t the rest; pio2_2 the next 33 bits, pio2_2t
\* the rest; and once more
pio2 == <<[k |-> "fin", sg |-> 0, m |-> <<0, 10368, 2029, 201>>, e |-> -52],
          [k |-> "fin", sg |-> 0, m |-> <<25393, 13508, 20868, 133>>, e |-> -86],
          [k |-> "fin", sg |-> 0, m |-> <<0, 13504, 20868, 133>>, e |-> -86],
          [k |-> "fin", sg |-> 0, m |-> <<28787, 23558, 26152, 152>>, e |-> -121],
          [k |-> "fin", sg |-> 0, m |-> <<0, 23552, 26152, 152>>, e |-> -121],
          [k |-> "fin", sg |-> 0, m |-> <<18881, 19008, 3688, 220>>, e |-> -156]>>

\* [n, y0, y1] from rw = <<r, w>>, the head and the tail of the remainder:
\* y0 = r - w and y1 = (r - y0) - w
remainder(n, rw) ==
  [n |-> n, y0 |-> Sub(rw[1], rw[2]),
   y1 |-> Sub(Sub(rw[1], Sub(rw[1], rw[2])), rw[2]), iy |-> 1]

\* the next round of the reduction, by piece i of pi/2 and its tail: with
\* w = fn * pio2[i], <<r - w, fn * pio2[i + 1] - ((r - (r - w)) - w)>>
refine(fn, r, i, w) == <<Sub(r, w), Sub(Mul(fn, pio2[i + 1]), Sub(Sub(r, Sub(r, w)), w))>>

\* the exponent lost between x and the remainder r - w
cancelled(ix, rw) == (ix \div 2^20) - ((highWord(Sub(rw[1], rw[2])) \div 2^20) % 2^11)

\* the second round of the reduction, and the third if the second lost too much
round2(ix, fn, rw2) ==
  IF cancelled(ix, rw2) <= 49 THEN rw2 ELSE refine(fn, rw2[1], 5, Mul(fn, pio2[5]))

\* the first round stands when x is not near a multiple of pi/2
round1(ix, n, fn, rw1) ==
  IF (n < 32 /\ ix # highWord(Mul(fn, PIo2))) \/ cancelled(ix, rw1) <= 16 THEN rw1
  ELSE round2(ix, fn, refine(fn, rw1[1], 3, Mul(fn, pio2[3])))

medium(x, ix, n, fn) ==
  remainder(n, round1(ix, n, fn, <<Sub(x, Mul(fn, pio2[1])), Mul(fn, pio2[2])>>))

\* x = n * pi/2 + y0 + y1 with |y0| <= pi/4, for pi/4 < x <= 2^19 * pi/2; when
\* x < 3pi/4, n is 1, and x near pi/2 takes a second piece of pi/2
rem_pio2_pos(x) ==
  IF highWord(x) < 1073928572
  THEN remainder(1, IF highWord(x) # 1073291771 THEN <<Sub(x, pio2[1]), pio2[2]>>
                    ELSE <<Sub(Sub(x, pio2[1]), pio2[3]), pio2[4]>>)
  ELSE medium(x, highWord(x), trunc(Add(Mul(x, invpio2), Half)),
              Num(trunc(Add(Mul(x, invpio2), Half))))

mirrored(sg, p) ==
  IF sg = 1 THEN [n |-> -p.n, y0 |-> Neg(p.y0), y1 |-> Neg(p.y1), iy |-> 1] ELSE p

rem_pio2(x) == mirrored(x.sg, rem_pio2_pos(Abs(x)))

\* x as n * pi/2 + y0 + y1: itself when |x| <= pi/4
reduced(x) ==
  IF highWord(x) <= 1072243195 THEN [n |-> 0, y0 |-> x, y1 |-> Zero(0), iy |-> 0]
  ELSE rem_pio2(x)

\* the sine of an angle q quarter turns past one of sine s and cosine c
quarter(q, s, c) ==
  IF q = 0 THEN s ELSE IF q = 1 THEN c ELSE IF q = 2 THEN Neg(s) ELSE Neg(c)

sinOf(p, q) == quarter((p.n + q) % 4, kernel_sin(p.y0, p.y1, p.iy), kernel_cos(p.y0, p.y1))

\* Math.sin(x), |x| <= 2^19 * pi/2
sin(x) == IF ~IsFinite(x) THEN NaN ELSE sinOf(reduced(x), 0)

\* Math.cos(x), |x| <= 2^19 * pi/2: the sine a quarter turn on
cos(x) == IF ~IsFinite(x) THEN NaN ELSE sinOf(reduced(x), 1)

atanhi == <<[k |-> "fin", sg |-> 0, m |-> <<15183, 2755, 12700, 237>>, e |-> -54],
            [k |-> "fin", sg |-> 0, m |-> <<11544, 10376, 2029, 201>>, e |-> -53],
            [k |-> "fin", sg |-> 0, m |-> <<30363, 9475, 19503, 251>>, e |-> -53],
            [k |-> "fin", sg |-> 0, m |-> <<11544, 10376, 2029, 201>>, e |-> -52]>>

atanlo == <<[k |-> "fin", sg |-> 0, m |-> <<26082, 17502, 11772, 209>>, e |-> -108],
            [k |-> "fin", sg |-> 0, m |-> <<23559, 26152, 6296, 141>>, e |-> -107],
            [k |-> "fin", sg |-> 0, m |-> <<19389, 30177, 7713, 128>>, e |-> -108],
            [k |-> "fin", sg |-> 0, m |-> <<23559, 26152, 6296, 141>>, e |-> -106]>>

aT == <<[k |-> "fin", sg |-> 0, m |-> <<21773, 10922, 21845, 170>>, e |-> -54],
        [k |-> "fin", sg |-> 1, m |-> <<27588, 13105, 26214, 204>>, e |-> -55],
        [k |-> "fin", sg |-> 0, m |-> <<1023, 9217, 9362, 146>>, e |-> -55],
        [k |-> "fin", sg |-> 1, m |-> <<5745, 31814, 18203, 227>>, e |-> -56],
        [k |-> "fin", sg |-> 0, m |-> <<8302, 2712, 5943, 186>>, e |-> -56],
        [k |-> "fin", sg |-> 1, m |-> <<6765, 24297, 17354, 157>>, e |-> -56],
        [k |-> "fin", sg |-> 0, m |-> <<15697, 16800, 13722, 136>>, e |-> -56],
        [k |-> "fin", sg |-> 1, m |-> <<32154, 9661, 30901, 238>>, e |-> -57],
        [k |-> "fin", sg |-> 0, m |-> <<3563, 18668, 27948, 203>>, e |-> -57],
        [k |-> "fin", sg |-> 1, m |-> <<27695, 22740, 20752, 149>>, e |-> -57],
        [k |-> "fin", sg |-> 0, m |-> <<23057, 17989, 13547, 133>>, e |-> -58]>>

\* the interval |x| falls in
atanId(ix) ==
  IF ix < 1071382528 THEN 0
  ELSE IF ix < 1072037888 THEN 1
  ELSE IF ix < 1072889856 THEN 2
  ELSE IF ix < 1073971200 THEN 3
  ELSE 4

\* the argument a = |x| is reduced to in interval id: (2a - 1) / (2 + a),
\* (a - 1) / (a + 1), (a - 1.5) / (1 + 1.5a) or -1 / a
atanArg(id, x, a) ==
  IF id = 0 THEN x
  ELSE Div(IF id = 1 THEN Sub(Mul(Num(2), a), Num(1))
           ELSE IF id = 2 THEN Sub(a, Num(1))
           ELSE IF id = 3 THEN Sub(a, Dec(15, 1))
           ELSE Num(-1),
           IF id = 1 THEN Add(Num(2), a)
           ELSE IF id = 2 THEN Add(a, Num(1))
           ELSE IF id = 3 THEN Add(Num(1), Mul(Dec(15, 1), a))
           ELSE a)

\* with z = x * x and w = z * z: x * (s1 + s2), s1 the odd and s2 the even terms
atanSeries(x, z, w) ==
  Mul(x, Add(Mul(z, horner(aT, 1, 2, w)), Mul(w, horner(aT, 2, 2, w))))

\* x * (s1 + s2) of fdlibm's atan: the odd polynomial without its first term
atanPoly(x) == atanSeries(x, Mul(x, x), Mul(Mul(x, x), Mul(x, x)))

\* the arctangent from the interval id, the reduced argument t and p = atanPoly(t)
atanJoin(sg, id, t, p) ==
  IF id = 0 THEN Sub(t, p)
  ELSE signed(sg, Sub(atanhi[id], Sub(Sub(p, atanlo[id]), t)))

atanAt(sg, id, t) == atanJoin(sg, id, t, atanPoly(t))

atan(x) ==
  IF IsNaN(x) THEN NaN
  ELSE IF highWord(x) >= 1141899264
       THEN signed(x.sg, Add(atanhi[4], atanlo[4]))
  ELSE IF highWord(x) < 1042284544 THEN x
  ELSE atanAt(x.sg, atanId(highWord(x)), atanArg(atanId(highWord(x)), x, Abs(x)))

\* the angle of the quadrant of (x, y) from z = atan(|y / x|)
turned(sy, sx, z) ==
  IF sx = 0 THEN signed(sy, z)
  ELSE IF sy = 0 THEN Sub(PI, Sub(z, pi_lo))
  ELSE Sub(Sub(z, pi_lo), PI)

\* Math.atan2(y, x); the division is left out when the exponents of y and x are
\* more than 60 apart
atan2(y, x) ==
  IF IsNaN(y) \/ IsNaN(x) THEN NaN
  ELSE IF x = Num(1) THEN atan(y)
  ELSE IF IsZero(y)
       THEN (IF x.sg = 0 THEN y ELSE signed(y.sg, Add(PI, tiny)))
  ELSE IF IsZero(x) \/ (IsInf(y) /\ ~IsInf(x)) THEN signed(y.sg, Add(PIo2, tiny))
  ELSE IF IsInf(x)
       THEN signed(y.sg, IF IsInf(y)
                         THEN (IF x.sg = 0 THEN Add(Mul(Half, PIo2), tiny)
                               ELSE Add(Mul(Num(3), Mul(Half, PIo2)), tiny))
                         ELSE (IF x.sg = 0 THEN Zero(0) ELSE Add(PI, tiny)))
  ELSE turned(y.sg, x.sg,
              IF (highWord(y) - highWord(x)) \div 2^20 > 60
              THEN Add(PIo2, Mul(Half, pi_lo))
              ELSE IF x.sg = 1 /\ (highWord(y) - highWord(x)) \div 2^20 < -60
              THEN Zero(0)
              ELSE atan(Abs(Div(y, x))))

(***************************************************************************)
(* utils/matrix.  A Matrix2x2 is <<<<a, b>>, <<c, d>>>>: matrix[i][j] of   *)
(* the source is M[i+1][j+1] here.  A const of the source is the parameter *)
(* of the operator that computes what follows it.                          *)
(***************************************************************************)
Tol10 == Dec(1, 10)   \* the literal 1e-10
Tol9 == Dec(1, 9)     \* the literal 1e-9

\* A^T * A = [[e, f], [f, g]]
gram(matrix) ==
  [e |-> Add(Mul(matrix[1][1], matrix[1][1]), Mul(matrix[2][1], matrix[2][1])),
   f |-> Add(Mul(matrix[1][1], matrix[1][2]), Mul(matrix[2][1], matrix[2][2])),
   g |-> Add(Mul(matrix[1][2], matrix[1][2]), Mul(matrix[2][2], matrix[2][2]))]

disc(e, f, g) == Sqrt(Add(Mul(Sub(e, g), Sub(e, g)), Mul(Mul(Num(4), f), f)))
lambda1(e, g, dsc) == Div(Add(Add(e, g), dsc), Num(2))
lambda2(e, g, dsc) == Div(Sub(Add(e, g), dsc), Num(2))

\* the length of w, the unnormalised v1 = [f, lambda1 - e]
norm1(w) == Sqrt(Add(Mul(w[1], w[1]), Mul(w[2], w[2])))

\* <<v1, v2>> with v1 = w / n and v2 = [-v1[1], v1[0]]
scaled(w, n) == <<Div(w[1], n), Div(w[2], n)>>
\* withNormal, with v2 turned the other way: [v1[1], -v1[0]]
withNormalOpposite(v1) == <<v1, <<v1[2], Neg(v1[1])>> >>
withNormal(v1) == <<v1, <<Neg(v1[2]), v1[1]>> >>

\* <<v1, v2>>: the eigenvectors of A^T * A
rightVectors(e, f, g, l1) ==
  IF Lt(Abs(f), Tol10)
  THEN IF Ge(e, g) THEN << <<Num(1), Num(0)>>, <<Num(0), Num(1)>> >>
       ELSE << <<Num(0), Num(1)>>, <<Num(-1), Num(0)>> >>
  ELSE withNormal(scaled(<<f, Sub(l1, e)>>, norm1(<<f, Sub(l1, e)>>)))

\* image, with the second column of A left out of the product
imageFirstColumnOnly(matrix, v, s) ==
  <<Div(Mul(matrix[1][1], v[1]), s), Div(Mul(matrix[2][1], v[1]), s)>>

\* A * v / s
image(matrix, v, s) ==
  <<Div(Add(Mul(matrix[1][1], v[1]), Mul(matrix[1][2], v[2])), s),
    Div(Add(Mul(matrix[2][1], v[1]), Mul(matrix[2][2], v[2])), s)>>

leftVector1(matrix, v1, s1) ==
  IF Gt(s1, Tol9) THEN image(matrix, v1, s1) ELSE <<Num(1), Num(0)>>

\* leftVector2, dividing by s2 whatever s2 is
leftVector2Dividing(matrix, v2, s2, u1) == image(matrix, v2, s2)
leftVector2(matrix, v2, s2, u1) ==
  IF Gt(s2, Tol9) THEN image(matrix, v2, s2) ELSE <<Neg(u1[2]), u1[1]>>

\* the matrix with columns c1, c2, and the matrix with rows r1, r2
columns(c1, c2) == << <<c1[1], c2[1]>>, <<c1[2], c2[2]>> >>

\* rows, with the transposition forgotten
rowsNotTransposed(r1, r2) == columns(r1, r2)
rows(r1, r2) == << <<r1[1], r1[2]>>, <<r2[1], r2[2]>> >>

\* computeSVD from u1 on, from s1, s2 and the right vectors on, and from
\* A^T * A and the discriminant on
svdLeft(matrix, s1, s2, vv, u1) ==
  [u |-> columns(u1, leftVector2(matrix, vv[2], s2, u1)), s |-> <<s1, s2>>,
   v |-> columns(vv[1], vv[2]), vt |-> rows(vv[1], vv[2])]

svdRight(matrix, s1, s2, vv) == svdLeft(matrix, s1, s2, vv, leftVector1(matrix, vv[1], s1))

svdRoots(matrix, gm, dsc) ==
  svdRight(matrix, Sqrt(lambda1(gm.e, gm.g, dsc)), Sqrt(lambda2(gm.e, gm.g, dsc)),
           rightVectors(gm.e, gm.f, gm.g, lambda1(gm.e, gm.g, dsc)))

svdGram(matrix, gm) == svdRoots(matrix, gm, disc(gm.e, gm.f, gm.g))

computeSVD(matrix) == svdGram(matrix, gram(matrix))

getAngle(matrix) == atan2(matrix[2][1], matrix[1][1])

\* [[c, -s], [s, c]]
turn(c, s) == << <<c, Neg(s)>>, <<s, c>> >>

fromAngleClockwise(angle) == turn(cos(angle), Neg(sin(angle)))
fromAngle(angle) == turn(cos(angle), sin(angle))

\* the numbers computeSVD divides by on the way: norm1 on the general branch,
\* s1 and s2 where the guards let them through
divisors(matrix) ==
  LET gm == gram(matrix)
      dsc == disc(gm.e, gm.f, gm.g)
      l1 == lambda1(gm.e, gm.g, dsc)
      s1 == Sqrt(l1)
      s2 == Sqrt(lambda2(gm.e, gm.g, dsc))
  IN  (IF Lt(Abs(gm.f), Tol10) THEN {} ELSE {norm1(<<gm.f, Sub(l1, gm.e)>>)})
      \cup (IF Gt(s1, Tol9) THEN {s1} ELSE {})
      \cup (IF Gt(s2, Tol9) THEN {s2} ELSE {})

multiplyEntrywise(x, y) == [i \in 1..2 |-> [j \in 1..2 |-> Mul(x[i][j], y[i][j])]]
\* math.multiply on two 2x2 arrays: the row-by-column product
multiply(x, y) ==
  [i \in 1..2 |-> [j \in 1..2 |->
     Add(Mul(x[i][1], y[1][j]), Mul(x[i][2], y[2][j]))]]

\* S = [[s[0], 0], [0, s[1]]], us = u * S, result = us * vt
reconstructMatrix(u, s, vt) ==
  multiply(multiply(u, << <<s[1], Num(0)>>, <<Num(0), s[2]>> >>), vt)

applyTransformShifted(matrix, point) ==
  <<Add(Add(Mul(matrix[1][1], point[1]), Mul(matrix[1][2], point[2])), Num(1)),
    Add(Mul(matrix[2][1], point[1]), Mul(matrix[2][2], point[2]))>>
applyTransform(matrix, point) ==
  <<Add(Mul(matrix[1][1], point[1]), Mul(matrix[1][2], point[2])),
    Add(Mul(matrix[2][1], point[1]), Mul(matrix[2][2], point[2]))>>

(***************************************************************************)
(* The functions are pure: each specification below draws the arguments of *)
(* the function under study in its initial state and applies it, one       *)
(* action a call.  A variable that a specification does not use is None.   *)
(***************************************************************************)
VARIABLES
  pc,        \* the call the driver is at
  matrix,    \* the Matrix2x2 given to computeSVD or applyTransform
  result,    \* the SVDResult: what computeSVD returned, or the given U, S, Vt
  product,   \* what reconstructMatrix returned
  angle,     \* the angle given to fromAngle
  rotation,  \* what fromAngle returned
  recovered, \* what getAngle returned
  args,      \* the points p and q and the scalar k
  images,    \* what applyTransform returned for p, q, p + q and k * p
  matrixA,   \* the App's state matrixA
  svd,       \* the App's state svd: u, s, v and vt
  factors,   \* the s of each reconstructMatrix call of the last event and its render
  edits      \* the number of events handled

vars == <<pc, matrix, result, product, angle, rotation, recovered, args, images,
          matrixA, svd, factors, edits>>

None == "none"

\* the App is not mounted
NoApp == matrixA = None /\ svd = None /\ factors = None /\ edits = 0

\* the numbers t[1] / 10^t[2], t[3] / 10^t[4], ..., for integers t[i]
Decs(t) == [i \in 1..(Len(t) \div 2) |-> Dec(t[2 * i - 1], t[2 * i])]

\* the matrix with the entries q[1], ..., q[4], row by row
Quad(q) == << <<q[1], q[2]>>, <<q[3], q[4]>> >>

\* the matrix [[a, b], [c, d]] / 10^p, entry by entry, for integers a, b, c, d
Mat(a, b, c, d, p) == Quad(Decs(<<a, p, b, p, c, p, d, p>>))

\* The arguments computeSVD is tried on: every matrix of integers of magnitude
\* up to MaxEntry, and matrices of decimal fractions: the application's initial
\* matrix, rank-deficient ones, diagonal ones and ones of small magnitude.
MaxEntry == 1

Grid ==
  {Quad(q) : q \in [1..4 -> {Num(n) : n \in (0 - MaxEntry)..MaxEntry}]}

Fractions ==
  { Quad(Decs(t)) : t \in
    { <<15, 1, 5, 1, 5, 1, 15, 1>>,     \* [[1.5, 0.5], [0.5, 1.5]]
      <<0, 0, 0, 0, 30, 1, 2, 1>>,      \* [[0, 0], [3, 0.2]]
      <<1, 1, 2, 1, 3, 1, 6, 1>>,       \* [[0.1, 0.2], [0.3, 0.6]]
      <<1, 1, 3, 1, 3, 1, 9, 1>>,       \* [[0.1, 0.3], [0.3, 0.9]]
      <<12, 1, -7, 1, 3, 1, 25, 1>>,    \* [[1.2, -0.7], [0.3, 2.5]]
      <<3, 0, 4, 0, 4, 0, -3, 0>>,      \* [[3, 4], [4, -3]]
      <<2, 0, 1, 0, 1, 0, 3, 0>>,       \* [[2, 1], [1, 3]]
      <<3, 0, 0, 0, 0, 0, 1, 1>>,       \* [[3, 0], [0, 0.1]]
      <<5, 0, 0, 0, 0, 0, 2, 0>>,       \* [[5, 0], [0, 2]]
      <<1, 0, 0, 0, 0, 0, 1, 8>>,       \* [[1, 0], [0, 1e-8]]
      <<1, 0, 0, 0, 0, 0, 1, 10>>,      \* [[1, 0], [0, 1e-10]]
      <<1, 10, 0, 0, 0, 0, 0, 0>>,      \* [[1e-10, 0], [0, 0]]
      <<0, 0, 0, 0, 1, 0, 1, 6>>,       \* [[0, 0], [1, 1e-6]]
      <<100, 7, 99, 7, 0, 0, 0, 0>>,    \* [[1e-5, 0.99e-5], [0, 0]]
      <<1, 6, 1, 6, 0, 0, 1, 6>>,       \* [[1e-6, 1e-6], [0, 1e-6]]
      <<2, 6, 1, 6, 1, 6, 0, 0>>,       \* [[2e-6, 1e-6], [1e-6, 0]]
      <<1, 5, 1, 5, 1, 5, 1, 5>> } }    \* [[1e-5, 1e-5], [1e-5, 1e-5]]

InitSVD ==
  /\ pc = "start"
  /\ matrix \in Grid \cup Fractions
  /\ result = None
  /\ product = None
  /\ angle = None /\ rotation = None /\ recovered = None
  /\ args = None /\ images = None
  /\ NoApp

\* r = computeSVD(A)
Decompose ==
  /\ pc = "start"
  /\ result' = computeSVD(matrix)
  /\ pc' = "decomposed"
  /\ UNCHANGED <<matrix, product, angle, rotation, recovered, args, images,
               matrixA, svd, factors, edits>>

\* reconstructMatrix(r.u, r.s, r.vt)
Reconstruct ==
  /\ pc = "decomposed"
  /\ product' = reconstructMatrix(result.u, result.s, result.vt)
  /\ pc' = "reconstructed"
  /\ UNCHANGED <<matrix, result, angle, rotation, recovered, args, images,
               matrixA, svd, factors, edits>>

NextSVD == Decompose \/ Reconstruct

SpecSVD == InitSVD /\ [][NextSVD]_vars

\* The arguments reconstructMatrix is tried on by itself: matrices that are not
\* orthogonal among them, and factors of either sign.
Components ==
  { Quad(Decs(t)) : t \in
    { <<1, 0, 0, 0, 0, 0, 1, 0>>,       \* the identity
      <<0, 0, -1, 0, 1, 0, 0, 0>>,      \* a quarter turn
      <<1, 0, 2, 0, 3, 0, 4, 0>>,       \* [[1, 2], [3, 4]]
      <<15, 1, 5, 1, 5, 1, 15, 1>>,     \* [[1.5, 0.5], [0.5, 1.5]]
      <<1, 1, -2, 1, 3, 1, 7, 1>>,      \* [[0.1, -0.2], [0.3, 0.7]]
      <<-6, 1, 8, 1, 8, 1, 6, 1>>,      \* a reflection, [[-0.6, 0.8], [0.8, 0.6]]
      <<0, 0, 0, 0, 0, 0, 0, 0>> } }    \* the zero matrix

Factors ==
  { Decs(t) : t \in
    { <<2, 0, 1, 0>>, <<0, 0, 0, 0>>, <<1, 1, 3, 0>>,     \* (2, 1), (0, 0), (0.1, 3)
      <<-25, 1, 7, 1>>, <<5, 0, 1, 9>> } }                \* (-2.5, 0.7), (5, 1e-9)

InitRecon ==
  /\ pc = "decomposed"
  /\ matrix = None
  /\ result \in [u : Components, s : Factors, vt : Components]
  /\ product = None
  /\ angle = None /\ rotation = None /\ recovered = None
  /\ args = None /\ images = None
  /\ NoApp

NextRecon == Reconstruct

SpecRecon == InitRecon /\ [][NextRecon]_vars

\* The angles fromAngle is tried on: what the sliders send, a whole number of
\* degrees d from -SliderMax to SliderMax turned into (d * Math.PI) / 180, and
\* the multiples of 0.1 up to MaxTenths / 10.
SliderMax == 180
MaxTenths == 31

radians(d) == Div(Mul(Num(d), PI), Num(180))

Angles ==
  {radians(d) : d \in (0 - SliderMax)..SliderMax}
    \cup {Dec(n, 1) : n \in (0 - MaxTenths)..MaxTenths}

InitAngle ==
  /\ pc = "start"
  /\ angle \in Angles
  /\ rotation = None /\ recovered = None
  /\ matrix = None /\ result = None /\ product = None
  /\ args = None /\ images = None
  /\ NoApp

\* R = fromAngle(theta)
FromAngle ==
  /\ pc = "start"
  /\ rotation' = fromAngle(angle)
  /\ pc' = "turned"
  /\ UNCHANGED <<matrix, result, product, angle, recovered, args, images,
               matrixA, svd, factors, edits>>

\* getAngle(R)
GetAngle ==
  /\ pc = "turned"
  /\ recovered' = getAngle(rotation)
  /\ pc' = "measured"
  /\ UNCHANGED <<matrix, result, product, angle, rotation, args, images,
               matrixA, svd, factors, edits>>

NextAngle == FromAngle \/ GetAngle

SpecAngle == InitAngle /\ [][NextAngle]_vars

\* The arguments applyTransform is tried on: points of integers of magnitude up
\* to MaxCoord and two larger ones, corners of the F shape the application
\* draws, and scalars and matrices of both kinds.
MaxCoord == 1

Points ==
  {Decs(<<x, 0, y, 0>>) : x, y \in (0 - MaxCoord)..MaxCoord}
    \cup { Decs(t) : t \in
           { <<1000, 0, -999, 0>>, <<-512, 0, 1000, 0>>,       \* (1000, -999), (-512, 1000)
             <<-5, 1, -1, 0>>, <<8, 1, 7, 1>>, <<5, 1, 3, 1>>, \* (-0.5, -1), (0.8, 0.7), (0.5, 0.3)
             <<1, 1, 2, 1>>, <<3, 1, 4, 1>> } }                \* (0.1, 0.2), (0.3, 0.4)

Offsets ==
  { Decs(t) : t \in
    { <<1, 0, -2, 0>>, <<-512, 0, 1000, 0>>,              \* (1, -2), (-512, 1000)
      <<3, 1, 4, 1>>, <<5, 1, 3, 1>> } }                  \* (0.3, 0.4), (0.5, 0.3)

Scalars == {Dec(t[1], t[2]) : t \in {<<-1, 0>>, <<3, 0>>, <<1000, 0>>, <<1, 1>>}}

Maps ==
  { Quad(Decs(t)) : t \in
    { <<1, 0, 2, 0, 3, 0, 4, 0>>,       \* [[1, 2], [3, 4]]
      <<1000, 0, -999, 0, 7, 0, 0, 0>>, \* [[1000, -999], [7, 0]]
      <<15, 1, 5, 1, 5, 1, 15, 1>>,     \* [[1.5, 0.5], [0.5, 1.5]]
      <<1, 1, 2, 1, 3, 1, 4, 1>> } }    \* [[0.1, 0.2], [0.3, 0.4]]

InitApply ==
  /\ pc = "start"
  /\ matrix \in Maps
  /\ args \in [p : Points, q : Offsets, k : Scalars]
  /\ images = None
  /\ result = None /\ product = None
  /\ angle = None /\ rotation = None /\ recovered = None
  /\ NoApp

\* applyTransform(A, p), applyTransform(A, q), applyTransform(A, p + q) and
\* applyTransform(A, k * p)
Apply ==
  /\ pc = "start"
  /\ images' = [p |-> applyTransform(matrix, args.p),
                q |-> applyTransform(matrix, args.q),
                sum |-> applyTransform(matrix, <<Add(args.p[1], args.q[1]),
                                                 Add(args.p[2], args.q[2])>>),
                scaled |-> applyTransform(matrix, <<Mul(args.k, args.p[1]),
                                                    Mul(args.k, args.p[2])>>)]
  /\ pc' = "applied"
  /\ UNCHANGED <<matrix, result, product, angle, rotation, recovered, args,
               matrixA, svd, factors, edits>>

NextApply == Apply

SpecApply == InitApply /\ [][NextApply]_vars

(***************************************************************************)
(* The App: its state is matrixA and svd.  An event of the page calls one  *)
(* handler, the handler sets both from the state the page was rendered     *)
(* with, and the page is rendered again before the next event; a render    *)
(* computes stage3 = reconstructMatrix(identity, svd.s, svd.vt).           *)
(***************************************************************************)
\* the events one run handles
MaxEdits == 2

\* the application's initial matrix (App.tsx: useState of matrixA)
InitialMatrix == Mat(15, 5, 5, 15, 1)

\* what parseFloat(val) || 0 makes of the texts typed into a cell of A
\* (100000000), and into a cell of Sigma (7)
Entries == {Num(100000000)}
Typed == {Num(7)}

\* the slider position tried, in degrees
Degrees == {30}

\* Math.round(x) for x of integer part t: the nearest integer, a half going up
nearest(x, t) ==
  IF x.sg = 0
  THEN Num(t + (IF Ge(Sub(x, Num(t)), Half) THEN 1 ELSE 0))
  ELSE Neg(Num(t + (IF Gt(Sub(Abs(x), Num(t)), Half) THEN 1 ELSE 0)))

round(x) == IF IsFinite(x) THEN nearest(x, trunc(x)) ELSE x

\* Math.max(0, Math.min(5, y)): NaN stays NaN
clamp(y) ==
  IF IsNaN(y) THEN y
  ELSE IF Le(y, Num(0)) THEN Num(0)
  ELSE IF Gt(y, Num(5)) THEN Num(5)
  ELSE y

\* MatrixInput.handleChange(row, col, val), num the parsed val
handleChange(value, row, col, num) == [value EXCEPT ![row][col] = num]

\* SigmaInput.adjust(idx, delta)
adjust(value, idx, delta) ==
  [value EXCEPT ![idx] = clamp(Div(round(Mul(Add(value[idx], delta), Num(10))), Num(10)))]

\* SigmaInput.handleInput(idx, val), num the parsed val
handleInput(value, idx, num) == [value EXCEPT ![idx] = clamp(num)]

\* what SigmaInput can send for the factors value: a press of - or +, or a text
SigmaInput(value) ==
  {adjust(value, idx, signed(sg, Dec(1, 1))) : idx \in 1..2, sg \in 0..1}
    \cup {handleInput(value, idx, num) : idx \in 1..2, num \in Typed}

InitApp ==
  /\ pc = "mounted"
  /\ matrixA = InitialMatrix
  /\ svd = computeSVD(InitialMatrix)
  /\ factors = <<svd.s>>
  /\ edits = 0
  /\ matrix = None /\ result = None /\ product = None
  /\ angle = None /\ rotation = None /\ recovered = None
  /\ args = None /\ images = None

\* a cell of A is edited: handleAChange(newA)
handleAChange ==
  /\ edits < MaxEdits
  /\ \E r \in 1..2, c \in 1..2, num \in Entries :
        matrixA' = handleChange(matrixA, r, c, num)
  /\ svd' = computeSVD(matrixA')
  /\ factors' = <<svd'.s>>
  /\ pc' = "handleAChange"
  /\ edits' = edits + 1
  /\ UNCHANGED <<matrix, result, product, angle, rotation, recovered, args, images>>

\* the U slider is moved: handleAngleUChange(newAngle)
handleAngleUChange ==
  /\ edits < MaxEdits
  /\ \E d \in Degrees : svd' = [svd EXCEPT !.u = fromAngle(radians(d))]
  /\ matrixA' = reconstructMatrix(svd'.u, svd.s, svd.vt)
  /\ factors' = <<svd.s, svd'.s>>
  /\ pc' = "handleAngleUChange"
  /\ edits' = edits + 1
  /\ UNCHANGED <<matrix, result, product, angle, rotation, recovered, args, images>>

\* the Vt slider is moved: handleAngleVTChange(newAngle)
handleAngleVTChange ==
  /\ edits < MaxEdits
  /\ \E d \in Degrees : svd' = [svd EXCEPT !.vt = fromAngle(radians(d))]
  /\ matrixA' = reconstructMatrix(svd.u, svd.s, svd'.vt)
  /\ factors' = <<svd.s, svd'.s>>
  /\ pc' = "handleAngleVTChange"
  /\ edits' = edits + 1
  /\ UNCHANGED <<matrix, result, product, angle, rotation, recovered, args, images>>

\* handleSigmaChange, decomposing the new matrixA again
handleSigmaChangeDecomposing ==
  /\ edits < MaxEdits
  /\ \E newS \in SigmaInput(svd.s) : matrixA' = reconstructMatrix(svd.u, newS, svd.vt)
  /\ svd' = computeSVD(matrixA')
  /\ factors' = <<svd'.s, svd'.s>>
  /\ pc' = "handleSigmaChange"
  /\ edits' = edits + 1
  /\ UNCHANGED <<matrix, result, product, angle, rotation, recovered, args, images>>

\* a factor is edited: handleSigmaChange(newS)
handleSigmaChange ==
  /\ edits < MaxEdits
  /\ \E newS \in SigmaInput(svd.s) : svd' = [svd EXCEPT !.s = newS]
  /\ matrixA' = reconstructMatrix(svd.u, svd'.s, svd.vt)
  /\ factors' = <<svd'.s, svd'.s>>
  /\ pc' = "handleSigmaChange"
  /\ edits' = edits + 1
  /\ UNCHANGED <<matrix, result, product, angle, rotation, recovered, args, images>>

NextApp ==
  handleAChange \/ handleAngleUChange \/ handleAngleVTChange \/ handleSigmaChange

SpecApp == InitApp /\ [][NextApp]_vars

(***************************************************************************)
(* What the claims are stated with.                                        *)
(***************************************************************************)
Tol6 == Dec(1, 6)     \* 1e-6

\* |x - y| <= t, as a test would write it: Math.abs(x - y) <= t
Within(x, y, t) == Le(Abs(Sub(x, y)), t)

col(m, j) == <<m[1][j], m[2][j]>>
dot(p, q) == Add(Mul(p[1], q[1]), Mul(p[2], q[2]))
norm(p) == Sqrt(dot(p, p))
Identity == << <<Num(1), Num(0)>>, <<Num(0), Num(1)>> >>

\* m[i][j] == n[i][j] for all i, j (the language's ==: -0 equals 0, NaN equals nothing)
SameMatrix(m, n) == \A i \in 1..2 : \A j \in 1..2 : Eq(m[i][j], n[i][j])
CloseMatrix(m, n, t) == \A i \in 1..2 : \A j \in 1..2 : Within(m[i][j], n[i][j], t)

\* the columns of m have unit norm and zero dot product, each within t
Orthogonal(m, t) ==
  /\ Within(norm(col(m, 1)), Num(1), t)
  /\ Within(norm(col(m, 2)), Num(1), t)
  /\ Le(Abs(dot(col(m, 1), col(m, 2))), t)

Returned == pc \in {"decomposed", "reconstructed"}

\* C1: reconstructMatrix(r.u, r.s, r.vt) with r = computeSVD(A) equals A within
\* 1e-6 in each of the four entries, for every finite A.
C1_RoundTrip ==
  pc = "reconstructed" => CloseMatrix(product, matrix, Tol6)

\* C2: in the result of computeSVD the columns of u, and the columns of v, have
\* unit norm and zero dot product, each within 1e-9.
C2_Orthogonality ==
  Returned => Orthogonal(result.u, Tol9) /\ Orthogonal(result.v, Tol9)

\* C3: computeSVD(A).s = (s0, s1) satisfies s0 >= s1 >= 0.
C3_Ordering ==
  Returned => Ge(result.s[1], result.s[2]) /\ Ge(result.s[2], Num(0))

\* C4: vt is the transpose of v: vt[i][j] and v[j][i] are the same number, for
\* all i, j, on the degenerate and on the general eigenvector branch.
C4_VtIsTransposeOfV ==
  Returned => \A i \in 1..2 : \A j \in 1..2 : result.vt[i][j] = result.v[j][i]

\* C4's case: a result of the general branch, where v is not a symmetric matrix
C4_Witness ==
  /\ pc = "decomposed"
  /\ ~Lt(Abs(gram(matrix).f), Tol10)
  /\ ~Eq(result.v[1][2], result.v[2][1])

\* x and y are the same number, or both are NaN
SameNumber(x, y) == Eq(x, y) \/ (IsNaN(x) /\ IsNaN(y))

\* C5: reconstructMatrix(U, S, Vt) is exactly U * diag(S) * Vt, that is
\* result[i][j] = U[i][0] * S[0] * Vt[0][j] + U[i][1] * S[1] * Vt[1][j], for
\* every U, S and Vt, orthogonal or not: nothing is validated or normalised.
C5_ReconstructIsProduct ==
  pc = "reconstructed" =>
    \A i \in 1..2 : \A j \in 1..2 :
      SameNumber(product[i][j],
                 Add(Mul(Mul(result.u[i][1], result.s[1]), result.vt[1][j]),
                     Mul(Mul(result.u[i][2], result.s[2]), result.vt[2][j])))

\* C5's case: factors that are not orthogonal, given as they are, and a product
\* that is not zero
C5_Witness ==
  /\ pc = "reconstructed"
  /\ matrix = None
  /\ ~Orthogonal(result.u, Tol9)
  /\ ~Orthogonal(result.vt, Tol9)
  /\ \A i \in 1..2 : \A j \in 1..2 : ~IsZero(product[i][j])

\* C6: for every angle theta in (-pi, pi], getAngle(fromAngle(theta)) is theta
\* within 1e-9.
C6_AngleRoundTrip ==
  (pc = "measured" /\ Gt(angle, Neg(PI)) /\ Le(angle, PI)) =>
    Within(recovered, angle, Tol9)

\* C6's case: the closed end of the interval, theta = pi, where the sine is a
\* rounding residue and the angle must still come back as pi and not -pi
C6_Witness ==
  /\ pc = "measured"
  /\ angle = PI
  /\ rotation[1][1] = Num(-1)
  /\ Gt(rotation[2][1], Zero(0))
  /\ recovered = PI

\* applyTransform is additive on p and q and homogeneous on k and p, exactly
Linear ==
  \A i \in 1..2 :
    /\ Eq(images.sum[i], Add(images.p[i], images.q[i]))
    /\ Eq(images.scaled[i], Mul(args.k, images.p[i]))

\* C7: applyTransform is linear: for all A, p, q and scalars k,
\* applyTransform(A, p + q) = applyTransform(A, p) + applyTransform(A, q) and
\* applyTransform(A, k * p) = k * applyTransform(A, p), componentwise.
C7_Linearity == pc = "applied" => Linear

\* x is an integer of magnitude at most 1000
Whole(x) ==
  /\ IsFinite(x)
  /\ IsZero(x) \/ x.e >= 0 \/ ~BLowBits(x.m, 0 - x.e)
  /\ Le(Abs(x), Num(1000))

WholeArguments ==
  /\ \A i \in 1..2 : \A j \in 1..2 : Whole(matrix[i][j])
  /\ \A i \in 1..2 : Whole(args.p[i]) /\ Whole(args.q[i])
  /\ Whole(args.k)

\* C7 as it holds: applyTransform is linear, exactly, on arguments that are
\* integers of magnitude at most 1000, where no operation rounds.
C7_LinearityOnIntegers == (pc = "applied" /\ WholeArguments) => Linear

\* C7's case: integer arguments at the top of the range
C7_Witness ==
  /\ pc = "applied"
  /\ WholeArguments
  /\ matrix = Mat(1000, -999, 7, 0, 0)
  /\ args.p = <<Num(1000), Num(-999)>>
  /\ args.k = Num(1000)
  /\ Linear

IsDiagonal(m) == IsZero(m[1][2]) /\ IsZero(m[2][1])
IsSymmetric(m) == Eq(m[1][2], m[2][1])

\* C8: for a diagonal A = [[a, 0], [0, d]] with a >= d >= 0 computeSVD returns
\* s = (a, d) and u = v = vt = identity.
C8_DiagonalInput ==
  (Returned /\ IsDiagonal(matrix)
     /\ Ge(matrix[1][1], matrix[2][2]) /\ Ge(matrix[2][2], Num(0)))
  => /\ Eq(result.s[1], matrix[1][1])
     /\ Eq(result.s[2], matrix[2][2])
     /\ SameMatrix(result.u, Identity)
     /\ SameMatrix(result.v, Identity)
     /\ SameMatrix(result.vt, Identity)

\* column j of m is plus or minus column j of n, entry by entry within t
SameUpToSign(m, n, j, t) ==
  \/ Within(m[1][j], n[1][j], t) /\ Within(m[2][j], n[2][j], t)
  \/ Within(m[1][j], Neg(n[1][j]), t) /\ Within(m[2][j], Neg(n[2][j]), t)

C10_Total ==
  Returned
  => /\ \A x \in divisors(matrix) : ~IsZero(x)
     /\ Ge(result.s[1], Num(0)) /\ Ge(result.s[2], Num(0))
     /\ Orthogonal(result.u, Tol9) /\ Orthogonal(result.v, Tol9)

\* C11: after any sequence of handleAChange, handleAngleUChange,
\* handleAngleVTChange and handleSigmaChange, matrixA equals
\* reconstructMatrix(svd.u, svd.s, svd.vt) within 1e-6 in each entry.
C11_StateIsProduct ==
  CloseMatrix(matrixA, reconstructMatrix(svd.u, svd.s, svd.vt), Tol6)

\* s[1] and s[2] are both within [0, 5]
InRange(s) == \A k \in 1..2 : Ge(s[k], Num(0)) /\ Le(s[k], Num(5))

\* C12: every call of reconstructMatrix the App makes, in a handler or in the
\* render that follows, receives scaling factors that are both within [0, 5].
C12_FactorsInRange ==
  \A i \in 1..Len(factors) : InRange(factors[i])

\* C13: svd.u and svd.vt of the App state are orthogonal in every reachable
\* state: unit columns and zero dot product, each within 1e-9.
C13_StateOrthogonal ==
  Orthogonal(svd.u, Tol9) /\ Orthogonal(svd.vt, Tol9)

det(m) == Sub(Mul(m[1][1], m[2][2]), Mul(m[1][2], m[2][1]))

\* computeSVD takes the branch of Math.abs(f) < 1e-10
Degenerate == Lt(Abs(gram(matrix).f), Tol10)

\* C14: computeSVD returns a v of determinant +1 (within 1e-9, the tolerance of
\* orthogonality): on the degenerate branch v is [[1, 0], [0, 1]] when e >= g,
\* a tie included, and [[0, -1], [1, 0]] when e < g; on the general branch
\* v2 = (-v1.y, v1.x).
C14_RightHanded ==
  Returned
  => /\ Within(det(result.v), Num(1), Tol9)
     /\ Degenerate /\ Ge(gram(matrix).e, gram(matrix).g)
          => SameMatrix(result.v, Identity)
     /\ Degenerate /\ Lt(gram(matrix).e, gram(matrix).g)
          => SameMatrix(result.v, Quad(Decs(<<0, 0, -1, 0, 1, 0, 0, 0>>)))
     /\ ~Degenerate
          => /\ Eq(result.v[1][2], Neg(result.v[2][1]))
             /\ Eq(result.v[2][2], result.v[1][1])

\* C14's case: the degenerate branch with e < g, v a quarter turn
C14_Witness ==
  /\ pc = "decomposed"
  /\ Degenerate /\ Lt(gram(matrix).e, gram(matrix).g)
  /\ Eq(result.v[2][1], Num(1)) /\ Eq(result.v[1][2], Num(-1))

\* A * w
apply(m, w) ==
  <<Add(Mul(m[1][1], w[1]), Mul(m[1][2], w[2])), Add(Mul(m[2][1], w[1]), Mul(m[2][2], w[2]))>>

\* C15: for i = 1, 2 the image A * v_i of column i of v has norm s_i, and
\* u_i = (A * v_i) / s_i is a unit vector when s_i > 1e-9, each within 1e-9, on
\* both branches.
C15_UnitLeftVectors ==
  Returned
  => \A i \in 1..2 :
       Gt(result.s[i], Tol9)
       => /\ Within(norm(apply(matrix, col(result.v, i))), result.s[i], Tol9)
          /\ Within(norm(col(result.u, i)), Num(1), Tol9)

\* lambda2 as computeSVD computes it
smaller(gm) == lambda2(gm.e, gm.g, disc(gm.e, gm.f, gm.g))

\* C16: the eigenvalues are clamped to 0 before the square root: when lambda2
\* comes out negative s[1] is 0, not NaN.
C16_ClampedRoot ==
  Returned
  => /\ ~IsNaN(result.s[1]) /\ ~IsNaN(result.s[2])
     /\ Lt(smaller(gram(matrix)), Num(0)) => IsZero(result.s[2])

\* C17: whenever s1 <= 1e-9 the returned u is exactly the identity; whenever
\* s1 > 1e-9 and s2 <= 1e-9, u2 is (-u1.y, u1.x), a finite vector: s2 is not
\* divided by.
C17_GuardedLeftVectors ==
  Returned
  => /\ Le(result.s[1], Tol9) => SameMatrix(result.u, Identity)
     /\ Gt(result.s[1], Tol9) /\ Le(result.s[2], Tol9)
          => /\ col(result.u, 2) = <<Neg(result.u[2][1]), result.u[1][1]>>
             /\ IsFinite(result.u[1][2]) /\ IsFinite(result.u[2][2])

\* C17's case: s2 = 0 < s1 and u1 is not an axis
C17_Witness ==
  /\ pc = "decomposed"
  /\ Gt(result.s[1], Tol9) /\ IsZero(result.s[2])
  /\ ~IsZero(result.u[1][1]) /\ ~IsZero(result.u[2][1])

\* C20: when both singular values exceed 1e-9, u is a proper rotation exactly
\* when det(A) > 0, and a reflection, det(u) = -1, when det(A) < 0, in which
\* case fromAngle(getAngle(u)) differs from u (orthogonality and determinants
\* within 1e-9).
C20_Handedness ==
  (Returned /\ Gt(result.s[1], Tol9) /\ Gt(result.s[2], Tol9))
  => /\ Gt(det(matrix), Num(0))
          <=> (Orthogonal(result.u, Tol9) /\ Within(det(result.u), Num(1), Tol9))
     /\ Lt(det(matrix), Num(0))
          => /\ Within(det(result.u), Num(-1), Tol9)
             /\ ~SameMatrix(fromAngle(getAngle(result.u)), result.u)

\* C18: handleAngleUChange leaves svd.s, svd.v and svd.vt as they were,
\* handleAngleVTChange leaves svd.u and svd.s, handleSigmaChange leaves svd.u
\* and svd.vt, and each sets matrixA to the product of the new svd: none
\* decomposes again.  Only handleAChange sets svd to computeSVD(newA), and
\* matrixA to newA, the old matrixA with the edited cell replaced.
C18_ComponentEditsKeepTheRest ==
  [][/\ pc' = "handleAngleUChange"
          => /\ svd'.s = svd.s /\ svd'.v = svd.v /\ svd'.vt = svd.vt
             /\ matrixA' = reconstructMatrix(svd'.u, svd'.s, svd'.vt)
     /\ pc' = "handleAngleVTChange"
          => /\ svd'.u = svd.u /\ svd'.s = svd.s
             /\ matrixA' = reconstructMatrix(svd'.u, svd'.s, svd'.vt)
     /\ pc' = "handleSigmaChange"
          => /\ svd'.u = svd.u /\ svd'.vt = svd.vt
             /\ matrixA' = reconstructMatrix(svd'.u, svd'.s, svd'.vt)
     /\ pc' = "handleAChange"
          => /\ svd' = computeSVD(matrixA')
             /\ \E r \in 1..2, c \in 1..2, num \in Entries :
                   matrixA' = handleChange(matrixA, r, c, num)]_vars

\* C18's case: a factor was edited to exceed the first one, and the svd kept
\* is not what decomposing matrixA gives
C18_Witness ==
  /\ pc = "handleSigmaChange"
  /\ Gt(svd.s[2], svd.s[1])
  /\ ~Eq(computeSVD(matrixA).s[1], svd.s[1])

\* C19: in every reachable App state svd.vt[i][j] and svd.v[j][i] are the same
\* number, for all i, j.
C19_StateVtIsTransposeOfV ==
  \A i \in 1..2 : \A j \in 1..2 : SameNumber(svd.vt[i][j], svd.v[j][i])

====
